---- MODULE Spec2Model ----
(***************************************************************************)
(* State-machine model of NativeEngine (native_engine.cpp): the lifecycle  *)
(* flags, the EGL display/surface/context handles, the per-pointer touch   *)
(* tracker (previous_positions) and the GameLoop that drives them.         *)
(***************************************************************************)
EXTENDS Integers, Sequences, FiniteSets, TLC

\* ------------------------------------------------------------------ bounds
\* records the host lets previous_positions grow to
MaxRecords == 2
\* the frame counter nn and the phase rotate_by are kept modulo FrameWrap
FrameWrap == 2

\* ------------------------------------------------------- float arithmetic
\* A float is an exact fraction <<n, d>> in lowest terms with d > 0, or one
\* of the IEEE values a division by zero produces: <<1,0>> is +inf,
\* <<-1,0>> is -inf and <<0,0>> is NaN.
Abs(n) == IF n < 0 THEN -n ELSE n

Sign(n) == IF n < 0 THEN -1 ELSE IF n > 0 THEN 1 ELSE 0

RECURSIVE Gcd(_, _)
Gcd(a, b) == IF b = 0 THEN a ELSE Gcd(b, a % b)

Flt(n, d) ==
    IF d = 0 THEN <<Sign(n), 0>>
    ELSE LET g == Gcd(Abs(n), Abs(d))
             s == Sign(d)
         IN  <<(s * n) \div g, (s * d) \div g>>

FromInt(n) == <<n, 1>>

NaN == <<0, 0>>

IsNaN(a) == a = NaN

IsInf(a) == a[2] = 0 /\ a[1] # 0

\* a / b on floats
FDiv(a, b) ==
    IF IsNaN(a) \/ IsNaN(b) THEN NaN
    ELSE IF IsInf(a) THEN (IF IsInf(b) THEN NaN
                           ELSE <<a[1] * (IF b[1] < 0 THEN -1 ELSE 1), 0>>)
    ELSE IF IsInf(b) THEN <<0, 1>>
    ELSE Flt(a[1] * b[2], a[2] * b[1])

\* a - b on floats
FSub(a, b) ==
    IF IsNaN(a) \/ IsNaN(b) THEN NaN
    ELSE IF IsInf(a) THEN (IF IsInf(b) /\ b[1] = a[1] THEN NaN ELSE a)
    ELSE IF IsInf(b) THEN <<-b[1], 0>>
    ELSE Flt(a[1] * b[2] - b[1] * a[2], a[2] * b[2])

\* struct Position
Position(x, y) == [x |-> x, y |-> y]

\* ------------------------------------------------------------- EGL values
EGL_NO_DISPLAY == "EGL_NO_DISPLAY"

EGL_NO_SURFACE == "EGL_NO_SURFACE"

EGL_NO_CONTEXT == "EGL_NO_CONTEXT"

\* the handles the platform hands out when a call succeeds
DisplayHandle == "display"

SurfaceHandle == "surface"

ContextHandle == "context"

ConfigHandle == "config"

NoConfig == "0"

EGL_SUCCESS == "EGL_SUCCESS"

EGL_CONTEXT_LOST == "EGL_CONTEXT_LOST"

EGL_BAD_CONTEXT == "EGL_BAD_CONTEXT"

EGL_BAD_DISPLAY == "EGL_BAD_DISPLAY"

EGL_BAD_SURFACE == "EGL_BAD_SURFACE"

EGL_BAD_ALLOC == "EGL_BAD_ALLOC"

EglErrors == {EGL_SUCCESS, EGL_CONTEXT_LOST, EGL_BAD_CONTEXT, EGL_BAD_DISPLAY,
              EGL_BAD_SURFACE, EGL_BAD_ALLOC}

\* sizes eglQuerySurface reports
SurfSizes == {[w |-> 1, h |-> 2], [w |-> 2, h |-> 1]}

\* ------------------------------------------------------------------ state
VARIABLES
    pc,                 \* position of the thread: "poll", "input", "events", "cooked",
                        \* "frame", "done", "destroyed", "aborted"
    destroyRequested,   \* mApp->destroyRequested
    pollTimeout,        \* timeout GameLoop passed to its last ALooper_pollAll
    mHasFocus, mIsVisible, mHasWindow,
    mHasGLObjects,
    mEglDisplay, mEglSurface, mEglContext, mEglConfig,
    eglInitialized,     \* platform side: eglInitialize succeeded on the display
    mSurfWidth, mSurfHeight,
    mIsFirstFrame, vs_loaded, fs_loaded,
    nn, rotate_by,
    previous_positions, \* std::list< std::pair<int32_t, Position> >
    touch_log,          \* events given to callback_touch_screen_event for the last motion event
    dispatch_log,       \* previous_positions as it is at each of these calls
    lastCmd,            \* command the last HandleCommand handled
    calls,              \* platform calls made by the last engine step
    engineLog           \* engine methods the last engine step ran, with outcome

lifecycleVars == <<mHasFocus, mIsVisible, mHasWindow>>

renderVars == <<mHasGLObjects, mEglDisplay, mEglSurface, mEglContext, mEglConfig,
                eglInitialized, mSurfWidth, mSurfHeight, mIsFirstFrame,
                vs_loaded, fs_loaded, nn, rotate_by>>

touchVars == <<previous_positions, touch_log, dispatch_log>>

vars == <<pc, destroyRequested, pollTimeout, lifecycleVars, renderVars, touchVars,
          lastCmd, calls, engineLog>>

\* ------------------------------------------------------------- lifecycle
\* mutant: the window flag is left out of the conjunction
IsAnimating_NoWindow == mHasFocus /\ mIsVisible

IsAnimating == mHasFocus /\ mIsVisible /\ mHasWindow

\* --------------------------------------------------------- render context
\* The render-side fields of the engine as one record, so that the methods
\* compose as in the code; calls and log accumulate what a step did.
Render ==
    [mHasGLObjects |-> mHasGLObjects, mEglDisplay |-> mEglDisplay,
     mEglSurface |-> mEglSurface, mEglContext |-> mEglContext,
     mEglConfig |-> mEglConfig, eglInitialized |-> eglInitialized,
     mSurfWidth |-> mSurfWidth, mSurfHeight |-> mSurfHeight,
     mIsFirstFrame |-> mIsFirstFrame, vs_loaded |-> vs_loaded,
     fs_loaded |-> fs_loaded, nn |-> nn, rotate_by |-> rotate_by,
     aborted |-> FALSE, ret |-> TRUE, calls |-> {}, log |-> {}]

SetRender(m) ==
    /\ mHasGLObjects' = m.mHasGLObjects
    /\ mEglDisplay' = m.mEglDisplay
    /\ mEglSurface' = m.mEglSurface
    /\ mEglContext' = m.mEglContext
    /\ mEglConfig' = m.mEglConfig
    /\ eglInitialized' = m.eglInitialized
    /\ mSurfWidth' = m.mSurfWidth
    /\ mSurfHeight' = m.mSurfHeight
    /\ mIsFirstFrame' = m.mIsFirstFrame
    /\ vs_loaded' = m.vs_loaded
    /\ fs_loaded' = m.fs_loaded
    /\ nn' = m.nn
    /\ rotate_by' = m.rotate_by
    /\ calls' = m.calls
    /\ engineLog' = m.log

Call(m, names) == [m EXCEPT !.calls = @ \cup names]

Log(m, entry) == [m EXCEPT !.log = @ \cup {entry}]

\* MY_ASSERT(cond): ABORT_GAME when cond is false
Abort(m) == [Log(m, "ABORT_GAME") EXCEPT !.aborted = TRUE, !.ret = FALSE]

\* What the platform does in one frame: the results of the calls the engine
\* may make.  makeCurrent and swap are EGL_SUCCESS or the error left behind.
\* Only the calls the engine makes in the frame have a free result: the
\* result of a call it does not make (the handle exists, an earlier call of
\* the frame failed, the frame is not drawn) is left at success.
\* On a platform that is not faulty every call succeeds.
PlatformOutcomes(m, faulty) ==
    LET missing == m.mEglDisplay = EGL_NO_DISPLAY \/ m.mEglSurface = EGL_NO_SURFACE
                       \/ m.mEglContext = EGL_NO_CONTEXT
        Free(needed) == IF faulty /\ needed THEN BOOLEAN ELSE {TRUE}
        hasDisplay(o) == \/ m.mEglDisplay # EGL_NO_DISPLAY
                         \/ (o.getDisplay # EGL_NO_DISPLAY /\ o.initOk)
        initialised == m.mEglDisplay = EGL_NO_DISPLAY \/ m.eglInitialized
        hasSurface(o) == /\ hasDisplay(o)
                         /\ (m.mEglSurface # EGL_NO_SURFACE \/ (initialised /\ o.surfOk))
        hasContext(o) == /\ hasSurface(o)
                         /\ (m.mEglContext # EGL_NO_CONTEXT \/ (initialised /\ o.ctxOk))
        prepared(o) == ~missing \/ hasContext(o)
        drawn(o) == /\ prepared(o)
                    /\ o.size.w = m.mSurfWidth /\ o.size.h = m.mSurfHeight
        made(o) ==
            /\ o.getDisplay = EGL_NO_DISPLAY => o.initOk
            /\ ~hasDisplay(o) => o.surfOk
            /\ ~hasSurface(o) => o.ctxOk
            /\ ~hasContext(o) => (o.makeCurrent = EGL_SUCCESS /\ o.vsOk /\ o.fsOk)
            /\ ~prepared(o) => o.size = [w |-> 1, h |-> 2]
            /\ ~drawn(o) => o.swap = EGL_SUCCESS
    IN  {o \in [getDisplay : IF faulty /\ m.mEglDisplay = EGL_NO_DISPLAY
                              THEN {EGL_NO_DISPLAY, DisplayHandle} ELSE {DisplayHandle},
                 initOk : Free(m.mEglDisplay = EGL_NO_DISPLAY),
                 surfOk : Free(m.mEglSurface = EGL_NO_SURFACE),
                 ctxOk : Free(m.mEglContext = EGL_NO_CONTEXT),
                 makeCurrent : IF faulty /\ missing
                               THEN {EGL_SUCCESS, EGL_BAD_DISPLAY, EGL_BAD_SURFACE}
                               ELSE {EGL_SUCCESS},
                 vsOk : Free(missing), fsOk : Free(missing),
                 size : SurfSizes,
                 swap : IF faulty THEN {EGL_SUCCESS, EGL_CONTEXT_LOST, EGL_BAD_SURFACE}
                        ELSE {EGL_SUCCESS}] : made(o)}

\* eglGetError(): returns the thread's error and resets it to EGL_SUCCESS
EglGetError(threadError) == [value |-> threadError, threadError |-> EGL_SUCCESS]

\* mutant: the "already had one" early return is missing
InitDisplay_AlwaysInit(m, o) ==
    LET d == o.getDisplay
        ok == d # EGL_NO_DISPLAY /\ o.initOk
        m1 == [Call(m, {"eglGetDisplay", "eglInitialize"})
                  EXCEPT !.mEglDisplay = d, !.eglInitialized = ok]
    IN  IF ~ok
        THEN [Log(Call(m1, {"eglGetError"}), "InitDisplay:failed") EXCEPT !.ret = FALSE]
        ELSE [Log(m1, "InitDisplay:ok") EXCEPT !.ret = TRUE]

InitDisplay(m, o) ==
    IF m.mEglDisplay # EGL_NO_DISPLAY
    THEN [Log(m, "InitDisplay:noop") EXCEPT !.ret = TRUE]
    ELSE LET d == o.getDisplay
             ok == d # EGL_NO_DISPLAY /\ o.initOk
             m1 == [Call(m, {"eglGetDisplay", "eglInitialize"})
                       EXCEPT !.mEglDisplay = d, !.eglInitialized = ok]
         IN  IF ~ok
             THEN [Log(Call(m1, {"eglGetError"}), "InitDisplay:failed")
                      EXCEPT !.ret = FALSE]
             ELSE [Log(m1, "InitDisplay:ok") EXCEPT !.ret = TRUE]

InitSurface(m, o) ==
    IF m.mEglDisplay = EGL_NO_DISPLAY THEN Abort(m)
    ELSE IF m.mEglSurface # EGL_NO_SURFACE
    THEN [Log(m, "InitSurface:noop") EXCEPT !.ret = TRUE]
    ELSE LET cfg == IF m.eglInitialized THEN ConfigHandle ELSE m.mEglConfig
             ok == m.eglInitialized /\ o.surfOk
             m1 == [Call(m, {"eglChooseConfig", "eglCreateWindowSurface"})
                       EXCEPT !.mEglConfig = cfg,
                              !.mEglSurface = IF ok THEN SurfaceHandle
                                              ELSE EGL_NO_SURFACE]
         IN  IF ~ok
             THEN [Log(Call(m1, {"eglGetError"}), "InitSurface:failed")
                      EXCEPT !.ret = FALSE]
             ELSE [Log(m1, "InitSurface:ok") EXCEPT !.ret = TRUE]

InitContext(m, o) ==
    IF m.mEglDisplay = EGL_NO_DISPLAY THEN Abort(m)
    ELSE IF m.mEglContext # EGL_NO_CONTEXT
    THEN [Log(m, "InitContext:noop") EXCEPT !.ret = TRUE]
    ELSE LET ok == m.eglInitialized /\ o.ctxOk
             m1 == [Call(m, {"eglCreateContext"})
                       EXCEPT !.mEglContext = IF ok THEN ContextHandle
                                              ELSE EGL_NO_CONTEXT]
         IN  IF ~ok
             THEN [Log(Call(m1, {"eglGetError"}), "InitContext:failed")
                      EXCEPT !.ret = FALSE]
             ELSE [Log(m1, "InitContext:ok") EXCEPT !.ret = TRUE]

KillGLObjects(m) ==
    IF m.mHasGLObjects THEN [m EXCEPT !.mHasGLObjects = FALSE] ELSE m

KillSurface(m) ==
    LET m1 == Call(m, {"eglMakeCurrent"})
    IN  IF m1.mEglSurface # EGL_NO_SURFACE
        THEN [Call(m1, {"eglDestroySurface"}) EXCEPT !.mEglSurface = EGL_NO_SURFACE]
        ELSE m1

\* mutant: killing the context also destroys the surface
KillContext_AlsoSurface(m) ==
    LET m1 == Call(KillGLObjects(m), {"eglMakeCurrent"})
        m2 == IF m1.mEglSurface # EGL_NO_SURFACE
              THEN [Call(m1, {"eglDestroySurface"}) EXCEPT !.mEglSurface = EGL_NO_SURFACE]
              ELSE m1
    IN  IF m2.mEglContext # EGL_NO_CONTEXT
        THEN [Call(m2, {"eglDestroyContext"}) EXCEPT !.mEglContext = EGL_NO_CONTEXT]
        ELSE m2

KillContext(m) ==
    LET m1 == Call(KillGLObjects(m), {"eglMakeCurrent"})
    IN  IF m1.mEglContext # EGL_NO_CONTEXT
        THEN [Call(m1, {"eglDestroyContext"}) EXCEPT !.mEglContext = EGL_NO_CONTEXT]
        ELSE m1

\* mutant: the display is terminated without killing context and surface
KillDisplay_NoCascade(m) ==
    IF m.mEglDisplay # EGL_NO_DISPLAY
    THEN [Call(m, {"eglTerminate"})
             EXCEPT !.mEglDisplay = EGL_NO_DISPLAY, !.eglInitialized = FALSE]
    ELSE m

KillDisplay(m) ==
    LET m1 == KillSurface(KillContext(m))
    IN  IF m1.mEglDisplay # EGL_NO_DISPLAY
        THEN [Call(m1, {"eglTerminate"})
                 EXCEPT !.mEglDisplay = EGL_NO_DISPLAY, !.eglInitialized = FALSE]
        ELSE m1

\* mutant: EGL_BAD_DISPLAY is handled like EGL_BAD_SURFACE
HandleEglError_BadDisplayAsSurface(m, error) ==
    LET m0 == Log(m, "HandleEglError:" \o error)
    IN  CASE error = EGL_SUCCESS -> [m0 EXCEPT !.ret = TRUE]
          [] error = EGL_CONTEXT_LOST -> [KillContext(m0) EXCEPT !.ret = TRUE]
          [] error = EGL_BAD_CONTEXT -> [KillContext(m0) EXCEPT !.ret = TRUE]
          [] error = EGL_BAD_DISPLAY -> [KillSurface(m0) EXCEPT !.ret = TRUE]
          [] error = EGL_BAD_SURFACE -> [KillSurface(m0) EXCEPT !.ret = TRUE]
          [] OTHER -> [m0 EXCEPT !.ret = FALSE]

\* mutant: an unknown code is answered by recreating the display
HandleEglError_UnknownAsDisplay(m, error) ==
    LET m0 == Log(m, "HandleEglError:" \o error)
    IN  CASE error = EGL_SUCCESS -> [m0 EXCEPT !.ret = TRUE]
          [] error = EGL_CONTEXT_LOST -> [KillContext(m0) EXCEPT !.ret = TRUE]
          [] error = EGL_BAD_CONTEXT -> [KillContext(m0) EXCEPT !.ret = TRUE]
          [] error = EGL_BAD_DISPLAY -> [KillDisplay(m0) EXCEPT !.ret = TRUE]
          [] error = EGL_BAD_SURFACE -> [KillSurface(m0) EXCEPT !.ret = TRUE]
          [] OTHER -> [KillDisplay(m0) EXCEPT !.ret = TRUE]

\* mutant: EGL_BAD_SURFACE is handled like EGL_BAD_DISPLAY
HandleEglError_BadSurfaceAsDisplay(m, error) ==
    LET m0 == Log(m, "HandleEglError:" \o error)
    IN  CASE error = EGL_SUCCESS -> [m0 EXCEPT !.ret = TRUE]
          [] error = EGL_CONTEXT_LOST -> [KillContext(m0) EXCEPT !.ret = TRUE]
          [] error = EGL_BAD_CONTEXT -> [KillContext(m0) EXCEPT !.ret = TRUE]
          [] error = EGL_BAD_DISPLAY -> [KillDisplay(m0) EXCEPT !.ret = TRUE]
          [] error = EGL_BAD_SURFACE -> [KillDisplay(m0) EXCEPT !.ret = TRUE]
          [] OTHER -> [m0 EXCEPT !.ret = FALSE]

HandleEglError(m, error) ==
    LET m0 == Log(m, "HandleEglError:" \o error)
    IN  CASE error = EGL_SUCCESS -> [m0 EXCEPT !.ret = TRUE]
          [] error = EGL_CONTEXT_LOST -> [KillContext(m0) EXCEPT !.ret = TRUE]
          [] error = EGL_BAD_CONTEXT -> [KillContext(m0) EXCEPT !.ret = TRUE]
          [] error = EGL_BAD_DISPLAY -> [KillDisplay(m0) EXCEPT !.ret = TRUE]
          [] error = EGL_BAD_SURFACE -> [KillSurface(m0) EXCEPT !.ret = TRUE]
          [] OTHER -> [m0 EXCEPT !.ret = FALSE]

ConfigureOpenGL(m) == Call(m, {"glClearColor", "glDisable", "glClear"})

load_vertex_shader(m, o) ==
    LET m1 == Call(m, {"glCreateShader", "glShaderSource", "glCompileShader",
                       "glGetShaderiv"})
    IN  IF ~o.vsOk
        THEN Log(Call(m1, {"glGetShaderInfoLog"}), "load_vertex_shader:failed")
        ELSE [Log(m1, "load_vertex_shader:ok") EXCEPT !.vs_loaded = TRUE]

load_frag_shader(m, o) ==
    LET m1 == Call(m, {"glCreateShader", "glShaderSource", "glCompileShader",
                       "glGetShaderiv"})
    IN  IF ~o.fsOk
        THEN Log(Call(m1, {"glGetShaderInfoLog"}), "load_frag_shader:failed")
        ELSE [Log(m1, "load_frag_shader:ok") EXCEPT !.fs_loaded = TRUE]

load_program(m) ==
    Call(m, {"glCreateProgram", "glAttachShader", "glBindAttribLocation",
             "glLinkProgram", "glUseProgram"})

setup_vertex_buffer(m) ==
    Call(m, {"glGenVertexArrays", "glGenBuffers", "glBindVertexArray", "glBindBuffer",
             "glEnableVertexAttribArray", "glVertexAttribPointer", "glBufferData"})

\* A failed EGL call followed by
\*     LOG?("... %d", eglGetError());  HandleEglError(eglGetError());
\* the log statement reads the error, which resets it, and the handler is
\* given what the second read returns.
LogThenHandleEglError(m, call, failure) ==
    LET logged == EglGetError(failure)
        passed == EglGetError(logged.threadError)
        m1 == Log(Call(m, {"eglGetError"}), call \o " failed:" \o logged.value)
    IN  HandleEglError(m1, passed.value)

BindSurfaceAndContext(m, o) ==
    LET m1 == Call(m, {"eglMakeCurrent"})
    IN  IF o.makeCurrent # EGL_SUCCESS
        THEN LogThenHandleEglError(m1, "eglMakeCurrent", o.makeCurrent)
        ELSE m1

\* mutant: PrepareToRender does not create the display first
PrepareToRender_SkipsInitDisplay(m, o) ==
    IF m.mEglDisplay = EGL_NO_DISPLAY \/ m.mEglSurface = EGL_NO_SURFACE
           \/ m.mEglContext = EGL_NO_CONTEXT
    THEN LET m2 == InitSurface(m, o)
         IN  IF ~m2.ret THEN m2
             ELSE LET m3 == InitContext(m2, o)
                  IN  IF ~m3.ret THEN m3
                      ELSE LET m4 == BindSurfaceAndContext(m3, o)
                               m5 == ConfigureOpenGL(m4)
                               m6 == load_vertex_shader(m5, o)
                               m7 == load_frag_shader(m6, o)
                               m8 == setup_vertex_buffer(load_program(m7))
                           IN  [m8 EXCEPT !.ret = TRUE]
    ELSE [m EXCEPT !.ret = TRUE]

\* mutant: a failed InitContext does not end PrepareToRender
PrepareToRender_IgnoresContextFailure(m, o) ==
    IF m.mEglDisplay = EGL_NO_DISPLAY \/ m.mEglSurface = EGL_NO_SURFACE
           \/ m.mEglContext = EGL_NO_CONTEXT
    THEN LET m1 == InitDisplay(m, o)
         IN  IF ~m1.ret THEN m1
             ELSE LET m2 == InitSurface(m1, o)
                  IN  IF ~m2.ret THEN m2
                      ELSE LET m3 == InitContext(m2, o)
                               m4 == BindSurfaceAndContext(m3, o)
                               m5 == ConfigureOpenGL(m4)
                               m6 == load_vertex_shader(m5, o)
                               m7 == load_frag_shader(m6, o)
                               m8 == setup_vertex_buffer(load_program(m7))
                           IN  [m8 EXCEPT !.ret = TRUE]
    ELSE [m EXCEPT !.ret = TRUE]

\* mutant: the test for a missing display, surface or context is left out
PrepareToRender_AlwaysRebuild(m, o) ==
    LET m1 == InitDisplay(m, o)
    IN  IF ~m1.ret THEN m1
        ELSE LET m2 == InitSurface(m1, o)
             IN  IF ~m2.ret THEN m2
                 ELSE LET m3 == InitContext(m2, o)
                      IN  IF ~m3.ret THEN m3
                          ELSE LET m4 == BindSurfaceAndContext(m3, o)
                                   m5 == ConfigureOpenGL(m4)
                                   m6 == load_vertex_shader(m5, o)
                                   m7 == load_frag_shader(m6, o)
                                   m8 == setup_vertex_buffer(load_program(m7))
                               IN  [m8 EXCEPT !.ret = TRUE]

PrepareToRender(m, o) ==
    IF m.mEglDisplay = EGL_NO_DISPLAY \/ m.mEglSurface = EGL_NO_SURFACE
           \/ m.mEglContext = EGL_NO_CONTEXT
    THEN LET m1 == InitDisplay(m, o)
         IN  IF ~m1.ret THEN m1
             ELSE LET m2 == InitSurface(m1, o)
                  IN  IF ~m2.ret THEN m2
                      ELSE LET m3 == InitContext(m2, o)
                           IN  IF ~m3.ret THEN m3
                               ELSE LET m4 == BindSurfaceAndContext(m3, o)
                                        m5 == ConfigureOpenGL(m4)
                                        m6 == load_vertex_shader(m5, o)
                                        m7 == load_frag_shader(m6, o)
                                        m8 == setup_vertex_buffer(load_program(m7))
                                    IN  [m8 EXCEPT !.ret = TRUE]
    ELSE [m EXCEPT !.ret = TRUE]

SwapBuffers(m, o) ==
    LET m1 == Call(m, {"eglSwapBuffers"})
    IN  IF o.swap # EGL_SUCCESS
        THEN LogThenHandleEglError(m1, "eglSwapBuffers", o.swap)
        ELSE m1

\* mutant: the result of PrepareToRender is ignored and the frame is drawn
DoFrame_DrawWhenNotReady(m, o) ==
    LET p == PrepareToRender(m, o)
        q == Call(IF ~p.ret THEN Log(p, "DoFrame:not ready") ELSE p,
                  {"eglQuerySurface"})
        width == o.size.w
        height == o.size.h
    IN  IF width # q.mSurfWidth \/ height # q.mSurfHeight
        THEN Log([Call(q, {"glViewport"})
                     EXCEPT !.mSurfWidth = width, !.mSurfHeight = height],
                 "DoFrame:resize")
        ELSE LET d == [Call(q, {"glClear", "glBufferData", "glDrawArrays"})
                          EXCEPT !.mIsFirstFrame = FALSE,
                                 !.rotate_by = (@ + 1) % FrameWrap,
                                 !.nn = (@ + 1) % FrameWrap]
                 s == SwapBuffers(d, o)
             IN  Log(Call(s, {"glGetError"}), "DoFrame:draw")

\* mutant: the resize branch does not return and the frame is drawn
DoFrame_DrawAfterResize(m, o) ==
    LET p == PrepareToRender(m, o)
    IN  IF ~p.ret THEN Log(p, "DoFrame:not ready")
        ELSE LET q == Call(p, {"eglQuerySurface"})
                 width == o.size.w
                 height == o.size.h
                 resized == width # q.mSurfWidth \/ height # q.mSurfHeight
                 v == IF resized
                      THEN Log([Call(q, {"glViewport"})
                                   EXCEPT !.mSurfWidth = width, !.mSurfHeight = height],
                               "DoFrame:resize")
                      ELSE q
                 d == [Call(v, {"glClear", "glBufferData", "glDrawArrays"})
                          EXCEPT !.mIsFirstFrame = FALSE,
                                 !.rotate_by = (@ + 1) % FrameWrap,
                                 !.nn = (@ + 1) % FrameWrap]
                 s == SwapBuffers(d, o)
             IN  Log(Call(s, {"glGetError"}), "DoFrame:draw")

DoFrame(m, o) ==
    LET p == PrepareToRender(m, o)
    IN  IF ~p.ret THEN Log(p, "DoFrame:not ready")
        ELSE LET q == Call(p, {"eglQuerySurface"})
                 width == o.size.w
                 height == o.size.h
             IN  IF width # q.mSurfWidth \/ height # q.mSurfHeight
                 THEN Log([Call(q, {"glViewport"})
                              EXCEPT !.mSurfWidth = width, !.mSurfHeight = height],
                          "DoFrame:resize")
                 ELSE LET d == [Call(q, {"glClear", "glBufferData", "glDrawArrays"})
                                   EXCEPT !.mIsFirstFrame = FALSE,
                                          !.rotate_by = (@ + 1) % FrameWrap,
                                          !.nn = (@ + 1) % FrameWrap]
                          s == SwapBuffers(d, o)
                      IN  Log(Call(s, {"glGetError"}), "DoFrame:draw")

\* ------------------------------------------------------------- commands
AppCmds ==
    {"APP_CMD_SAVE_STATE", "APP_CMD_INIT_WINDOW", "APP_CMD_TERM_WINDOW",
     "APP_CMD_GAINED_FOCUS", "APP_CMD_LOST_FOCUS", "APP_CMD_PAUSE",
     "APP_CMD_RESUME", "APP_CMD_STOP", "APP_CMD_START", "APP_CMD_WINDOW_RESIZED",
     "APP_CMD_CONFIG_CHANGED", "APP_CMD_LOW_MEMORY", "APP_CMD_DESTROY"}

\* mutant: APP_CMD_TERM_WINDOW kills the display instead of the surface
HandleCommand_TermKillsDisplay(cmd, window) ==
    /\ lastCmd' = cmd
    /\ mHasWindow' = CASE cmd = "APP_CMD_INIT_WINDOW" -> (window \/ mHasWindow)
                       [] cmd = "APP_CMD_TERM_WINDOW" -> FALSE
                       [] OTHER -> mHasWindow
    /\ mHasFocus' = CASE cmd = "APP_CMD_GAINED_FOCUS" -> TRUE
                      [] cmd = "APP_CMD_LOST_FOCUS" -> FALSE
                      [] OTHER -> mHasFocus
    /\ mIsVisible' = CASE cmd = "APP_CMD_START" -> TRUE
                       [] cmd = "APP_CMD_STOP" -> FALSE
                       [] OTHER -> mIsVisible
    /\ SetRender(CASE cmd = "APP_CMD_TERM_WINDOW" -> KillDisplay(Render)
                   [] cmd = "APP_CMD_LOW_MEMORY" /\ ~mHasWindow -> KillGLObjects(Render)
                   [] OTHER -> Render)

\* mutant: APP_CMD_PAUSE clears the focus flag
HandleCommand_PauseDropsFocus(cmd, window) ==
    /\ lastCmd' = cmd
    /\ mHasWindow' = CASE cmd = "APP_CMD_INIT_WINDOW" -> (window \/ mHasWindow)
                       [] cmd = "APP_CMD_TERM_WINDOW" -> FALSE
                       [] OTHER -> mHasWindow
    /\ mHasFocus' = CASE cmd = "APP_CMD_GAINED_FOCUS" -> TRUE
                      [] cmd = "APP_CMD_LOST_FOCUS" -> FALSE
                      [] cmd = "APP_CMD_PAUSE" -> FALSE
                      [] OTHER -> mHasFocus
    /\ mIsVisible' = CASE cmd = "APP_CMD_START" -> TRUE
                       [] cmd = "APP_CMD_STOP" -> FALSE
                       [] OTHER -> mIsVisible
    /\ SetRender(CASE cmd = "APP_CMD_TERM_WINDOW" -> KillSurface(Render)
                   [] cmd = "APP_CMD_LOW_MEMORY" /\ ~mHasWindow -> KillGLObjects(Render)
                   [] OTHER -> Render)

\* window: mApp->window != NULL when the command is handled
HandleCommand(cmd, window) ==
    /\ lastCmd' = cmd
    /\ mHasWindow' = CASE cmd = "APP_CMD_INIT_WINDOW" -> (window \/ mHasWindow)
                       [] cmd = "APP_CMD_TERM_WINDOW" -> FALSE
                       [] OTHER -> mHasWindow
    /\ mHasFocus' = CASE cmd = "APP_CMD_GAINED_FOCUS" -> TRUE
                      [] cmd = "APP_CMD_LOST_FOCUS" -> FALSE
                      [] OTHER -> mHasFocus
    /\ mIsVisible' = CASE cmd = "APP_CMD_START" -> TRUE
                       [] cmd = "APP_CMD_STOP" -> FALSE
                       [] OTHER -> mIsVisible
    /\ SetRender(CASE cmd = "APP_CMD_TERM_WINDOW" -> KillSurface(Render)
                   [] cmd = "APP_CMD_LOW_MEMORY" /\ ~mHasWindow -> KillGLObjects(Render)
                   [] OTHER -> Render)

\* ------------------------------------------------------------- GameLoop
Init ==
    /\ pc = "poll"
    /\ destroyRequested = FALSE
    /\ pollTimeout = -1
    /\ mHasFocus = FALSE /\ mIsVisible = FALSE /\ mHasWindow = FALSE
    /\ mHasGLObjects = FALSE
    /\ mEglDisplay = EGL_NO_DISPLAY
    /\ mEglSurface = EGL_NO_SURFACE
    /\ mEglContext = EGL_NO_CONTEXT
    /\ mEglConfig = NoConfig
    /\ eglInitialized = FALSE
    /\ mSurfWidth = 0 /\ mSurfHeight = 0
    /\ mIsFirstFrame = TRUE
    /\ vs_loaded = FALSE /\ fs_loaded = FALSE
    /\ nn = 0 /\ rotate_by = 0
    /\ previous_positions = <<>>
    /\ touch_log = <<>>
    /\ dispatch_log = <<>>
    /\ lastCmd = "none"
    /\ calls = {}
    /\ engineLog = {}

\* mutant: the poll blocks whether the engine is animating or not
PollArg_AlwaysBlock == IF IsAnimating THEN -1 ELSE -1

\* mutant: the two timeouts are swapped
PollArg_Swapped == IF IsAnimating THEN -1 ELSE 0

\* ALooper_pollAll(IsAnimating() ? 0 : -1, ...)
PollArg == IF IsAnimating THEN 0 ELSE -1

\* mutant: the loop does not test destroyRequested after the event
PollCommand_IgnoreDestroy ==
    /\ pc = "poll"
    /\ \E cmd \in AppCmds, window \in BOOLEAN :
          /\ pollTimeout' = PollArg
          /\ HandleCommand(cmd, window)
          /\ destroyRequested' = (destroyRequested \/ cmd = "APP_CMD_DESTROY")
          /\ pc' = "poll"
    /\ UNCHANGED touchVars

\* ident >= 0 with a command source: source->process runs HandleCommand; the
\* glue sets destroyRequested on APP_CMD_DESTROY; the loop then tests it.
PollCommand ==
    /\ pc = "poll"
    /\ \E cmd \in AppCmds, window \in BOOLEAN :
          /\ pollTimeout' = PollArg
          /\ HandleCommand(cmd, window)
          /\ destroyRequested' = (destroyRequested \/ cmd = "APP_CMD_DESTROY")
          /\ pc' = IF destroyRequested' THEN "done" ELSE "poll"
    /\ UNCHANGED touchVars

\* ident < 0: ALOOPER_POLL_TIMEOUT (only a poll that does not block times
\* out), ALOOPER_POLL_WAKE or ALOOPER_POLL_ERROR end the inner loop.
PollReturnsWith(ident) ==
    /\ pc = "poll"
    /\ ident = "ALOOPER_POLL_TIMEOUT" => PollArg = 0
    /\ pollTimeout' = PollArg
    /\ pc' = "input"
    /\ lastCmd' = "none" /\ calls' = {} /\ engineLog' = {}
    /\ UNCHANGED <<destroyRequested, lifecycleVars, renderVars, touchVars>>

PollReturns ==
    \E ident \in {"ALOOPER_POLL_WAKE", "ALOOPER_POLL_TIMEOUT", "ALOOPER_POLL_ERROR"} :
        PollReturnsWith(ident)

\* mutant: DoFrame is called only if (IsAnimating())
DoFrameStep_OnlyWhenAnimating(faulty) ==
    /\ pc = "frame"
    /\ \E o \in PlatformOutcomes(Render, faulty) :
          LET m == IF IsAnimating THEN DoFrame(Render, o) ELSE Render
          IN  /\ SetRender(m)
              /\ pc' = IF m.aborted THEN "aborted" ELSE "poll"
    /\ lastCmd' = "none"
    /\ UNCHANGED <<destroyRequested, pollTimeout, lifecycleVars, touchVars>>

DoFrameStep(faulty) ==
    /\ pc = "frame"
    /\ \E o \in PlatformOutcomes(Render, faulty) :
          LET m == DoFrame(Render, o)
          IN  /\ SetRender(m)
              /\ pc' = IF m.aborted THEN "aborted" ELSE "poll"
    /\ lastCmd' = "none"
    /\ UNCHANGED <<destroyRequested, pollTimeout, lifecycleVars, touchVars>>

\* android_main: delete engine after GameLoop returned; ~NativeEngine
Destructor ==
    /\ pc = "done"
    /\ SetRender(KillContext(Render))
    /\ pc' = "destroyed"
    /\ lastCmd' = "none"
    /\ UNCHANGED <<destroyRequested, pollTimeout, lifecycleVars, touchVars>>

\* ------------------------------------------------------------ touch input
\* pointer ids the host uses
Ids == {0, 1}

\* raw (pixel) positions the host reports
RawPoints == {[x |-> 0, y |-> 1], [x |-> 1, y |-> 0]}

\* GameActivityPointerAxes
Pointers == [id : Ids, x : {p.x : p \in RawPoints}, y : {p.y : p \in RawPoints}]

HostPointers == {p \in Pointers : [x |-> p.x, y |-> p.y] \in RawPoints}

\* the pointers of one motion event: distinct ids
PointerSeqs ==
    {<<>>} \cup {<<p>> : p \in HostPointers}
           \cup {<<p, q>> : <<p, q>> \in {r \in HostPointers \X HostPointers : r[1].id # r[2].id}}

DownActions == {"AMOTION_EVENT_ACTION_DOWN", "AMOTION_EVENT_ACTION_POINTER_DOWN"}

UpActions == {"AMOTION_EVENT_ACTION_UP", "AMOTION_EVENT_ACTION_POINTER_UP"}

MotionActions ==
    DownActions \cup UpActions
        \cup {"AMOTION_EVENT_ACTION_MOVE", "AMOTION_EVENT_ACTION_CANCEL"}

\* GameActivityMotionEvent: the masked action, the pointer index held in the
\* action's index bits, and the pointers.  The host sends DOWN for the first
\* finger and UP for the last one (one pointer, index bits 0), POINTER_DOWN
\* and POINTER_UP for a further finger (the index of one of the pointers),
\* MOVE and CANCEL with the fingers that are down; an event may also come
\* with pointerCount 0.
MotionEvents ==
    {e \in [action : MotionActions, index : 0 .. 1, pointers : PointerSeqs] :
        CASE e.action \in {"AMOTION_EVENT_ACTION_DOWN", "AMOTION_EVENT_ACTION_UP"} ->
                 e.index = 0 /\ Len(e.pointers) = 1
          [] e.action \in {"AMOTION_EVENT_ACTION_POINTER_DOWN",
                           "AMOTION_EVENT_ACTION_POINTER_UP"} ->
                 Len(e.pointers) = 2
          [] e.action = "AMOTION_EVENT_ACTION_CANCEL" ->
                 e.index = 0 /\ Len(e.pointers) = 1
          [] OTHER -> e.index = 0}

\* ev.move_ndelta is never initialised: what it holds before the first
\* write.  Only a MOVE reads it.
IndeterminateDeltas(e) ==
    IF e.action = "AMOTION_EVENT_ACTION_MOVE"
    THEN {Position(FromInt(0), FromInt(0)), Position(Flt(1, 2), FromInt(-1))}
    ELSE {Position(FromInt(0), FromInt(0))}

\* ev.norm_pos = ev.pos / ev.max, the max being the cached surface size
Normalize(p, width, height) ==
    Position(FDiv(FromInt(p.x), FromInt(width)), FDiv(FromInt(p.y), FromInt(height)))

\* std::find_if over previous_positions: index of the first record of id, 0 for end()
FindRecord(pp, id) ==
    IF \E k \in 1 .. Len(pp) : pp[k].id = id
    THEN CHOOSE k \in 1 .. Len(pp) :
             /\ pp[k].id = id
             /\ \A j \in 1 .. (k - 1) : pp[j].id # id
    ELSE 0

\* mutant: the front record is removed when no record matches
RemoveRecords_PopFront(pp, id) ==
    IF \E k \in 1 .. Len(pp) : pp[k].id = id
    THEN SelectSeq(pp, LAMBDA el : el.id # id)
    ELSE IF pp = <<>> THEN pp ELSE Tail(pp)

\* previous_positions.remove_if(el.first == id)
RemoveRecords(pp, id) == SelectSeq(pp, LAMBDA el : el.id # id)

\* previous_positions.push_back(pair(id, norm_pos))
PushRecord(pp, id, norm) == Append(pp, [id |-> id, pos |-> norm])

\* callback_touch_screen_event(ev): the event is logged; a Move adds
\* ev.move_ndelta to orig_x[i], orig_y[i], so the entry's move_ndelta is the
\* offset the callback applied.  t is the tracker state of the handler:
\* pp (previous_positions), ndelta (ev.move_ndelta), log, seen (the tracker
\* at the time of each call), diag (LOGE lines).
callback_touch_screen_event(t, ev) ==
    [t EXCEPT !.log = Append(@, ev), !.seen = Append(@, t.pp)]

Unread == "unread"

TouchScreenEvent(type, p, index, norm, ndelta) ==
    [type |-> type, id |-> p.id, pos |-> Position(p.x, p.y), norm_pos |-> norm,
     move_ndelta |-> ndelta, pointer_index |-> index]

\* case AMOTION_EVENT_ACTION_MOVE: the loop over the pointers of the event
RECURSIVE MoveLoop(_, _, _, _, _)
MoveLoop(pointers, i, t, width, height) ==
    IF i >= Len(pointers) THEN t
    ELSE LET p == pointers[i + 1]
             norm == Normalize(p, width, height)
             it == FindRecord(t.pp, p.id)
             t1 == IF it = 0
                   THEN [t EXCEPT !.diag = @ \cup {"LOGE:baaaaaaaaaaaaaaaaad"}]
                   ELSE [t EXCEPT !.ndelta = Position(FSub(norm.x, t.pp[it].pos.x),
                                                      FSub(norm.y, t.pp[it].pos.y)),
                                  !.pp[it].pos = norm]
             ev == TouchScreenEvent("Move", p, i, norm, t1.ndelta)
         IN  MoveLoop(pointers, i + 1, callback_touch_screen_event(t1, ev),
                      width, height)

\* mutant: an Up is given to the callback before its record is removed
CookPointer_EmitThenRemove(e, pointerIndex, t, width, height) ==
    LET p == e.pointers[pointerIndex + 1]
        norm == Normalize(p, width, height)
    IN  IF e.action \in UpActions
        THEN LET found == FindRecord(t.pp, p.id) # 0
                 t1 == callback_touch_screen_event(
                           t, TouchScreenEvent("Up", p, pointerIndex, norm, Unread))
             IN  [t1 EXCEPT !.pp = RemoveRecords(@, p.id),
                            !.diag = IF found THEN @
                                     ELSE @ \cup {"LOGE:noooooooooooooo"}]
        ELSE LET t1 == [t EXCEPT !.pp = PushRecord(@, p.id, norm)]
             IN  callback_touch_screen_event(
                     t1, TouchScreenEvent("Down", p, pointerIndex, norm, Unread))

\* the event cooked for pointerIndex after the switch on the action
CookPointer(e, pointerIndex, t, width, height) ==
    LET p == e.pointers[pointerIndex + 1]
        norm == Normalize(p, width, height)
    IN  IF e.action \in UpActions
        THEN LET found == FindRecord(t.pp, p.id) # 0
                 t1 == [t EXCEPT !.pp = RemoveRecords(@, p.id),
                                 !.diag = IF found THEN @
                                          ELSE @ \cup {"LOGE:noooooooooooooo"}]
             IN  callback_touch_screen_event(
                     t1, TouchScreenEvent("Up", p, pointerIndex, norm, Unread))
        ELSE LET t1 == [t EXCEPT !.pp = PushRecord(@, p.id, norm)]
             IN  callback_touch_screen_event(
                     t1, TouchScreenEvent("Down", p, pointerIndex, norm, Unread))

\* one iteration of the loop over inputBuffer->motionEvents
process_motion_event(pp, e, garbage, width, height) ==
    LET t == [pp |-> pp, ndelta |-> garbage, log |-> <<>>, seen |-> <<>>, diag |-> {}]
    IN  IF Len(e.pointers) = 0 THEN t
        ELSE CASE e.action = "AMOTION_EVENT_ACTION_MOVE" ->
                      MoveLoop(e.pointers, 0, t, width, height)
               [] e.action = "AMOTION_EVENT_ACTION_DOWN" \/ e.action = "AMOTION_EVENT_ACTION_UP" ->
                      CookPointer(e, 0, t, width, height)
               [] e.action = "AMOTION_EVENT_ACTION_POINTER_DOWN"
                    \/ e.action = "AMOTION_EVENT_ACTION_POINTER_UP" ->
                      CookPointer(e, e.index, t, width, height)
               [] OTHER -> t

\* android_app_swap_input_buffers: the buffer is NULL or empty, or holds
\* motion events
SwapInputBuffers(hostSendsInput) ==
    /\ pc = "input"
    /\ \E motionEventsCount \in IF hostSendsInput THEN {0, 1} ELSE {0} :
          pc' = IF motionEventsCount = 0 THEN "frame" ELSE "events"
    /\ lastCmd' = "none" /\ calls' = {} /\ engineLog' = {}
    /\ UNCHANGED <<destroyRequested, pollTimeout, lifecycleVars, renderVars,
                   touchVars>>

\* the body of the loop over the buffer handles motionEvents[i]
HandleMotionEvent ==
    /\ pc = "events"
    /\ \E e \in MotionEvents :
          /\ e.action \in DownActions => Len(previous_positions) < MaxRecords
          /\ \E garbage \in IndeterminateDeltas(e) :
                LET t == process_motion_event(previous_positions, e, garbage,
                                              mSurfWidth, mSurfHeight)
                IN  /\ previous_positions' = t.pp
                    /\ touch_log' = t.log
                    /\ dispatch_log' = t.seen
                    /\ engineLog' = t.diag
    /\ pc' = "cooked"
    /\ lastCmd' = "none" /\ calls' = {}
    /\ UNCHANGED <<destroyRequested, pollTimeout, lifecycleVars, renderVars>>

\* ++i: ev goes out of scope; either another motion event follows, or the
\* loop ends, android_app_clear_motion_events runs and process_input_events
\* returns
NextMotionEvent ==
    /\ pc = "cooked"
    /\ \E more \in BOOLEAN : pc' = IF more THEN "events" ELSE "frame"
    /\ touch_log' = <<>>
    /\ dispatch_log' = <<>>
    /\ engineLog' = {}
    /\ UNCHANGED <<destroyRequested, pollTimeout, lifecycleVars, renderVars,
                   previous_positions, lastCmd, calls>>

\* ------------------------------------------------------- specifications
\* the whole program
Next ==
    \/ PollCommand
    \/ PollReturns
    \/ SwapInputBuffers(TRUE)
    \/ HandleMotionEvent
    \/ NextMotionEvent
    \/ DoFrameStep(TRUE)
    \/ Destructor

Spec == Init /\ [][Next]_vars

\* the program with a host that delivers no motion events
NextRender ==
    \/ PollCommand
    \/ PollReturns
    \/ SwapInputBuffers(FALSE)
    \/ DoFrameStep(TRUE)
    \/ Destructor

SpecRender == Init /\ [][NextRender]_vars

\* SpecRender with the scheduling of the loop's thread: a poll with timeout 0
\* returns when no event is pending, and the thread goes on from
\* process_input_events to DoFrame and back to the poll
SpecRenderLive ==
    /\ Init /\ [][NextRender]_vars
    /\ WF_vars(PollReturnsWith("ALOOPER_POLL_TIMEOUT"))
    /\ WF_vars(SwapInputBuffers(FALSE))
    /\ WF_vars(DoFrameStep(TRUE))

\* the program with a host that sends no commands and a platform on which
\* every call succeeds
NextTouch ==
    \/ PollReturns
    \/ SwapInputBuffers(TRUE)
    \/ HandleMotionEvent
    \/ NextMotionEvent
    \/ DoFrameStep(FALSE)

SpecTouch == Init /\ [][NextTouch]_vars

\* a caller hands HandleEglError an error code between two steps of the loop
HandleEglErrorStep ==
    /\ pc \in {"poll", "input", "frame"}
    /\ \E error \in EglErrors : SetRender(HandleEglError(Render, error))
    /\ lastCmd' = "none"
    /\ UNCHANGED <<pc, destroyRequested, pollTimeout, lifecycleVars, touchVars>>

\* the program of SpecRender with HandleEglError called with any error code
NextRC ==
    \/ PollCommand
    \/ PollReturns
    \/ SwapInputBuffers(FALSE)
    \/ DoFrameStep(TRUE)
    \/ Destructor
    \/ HandleEglErrorStep

SpecRC == Init /\ [][NextRC]_vars

\* ----------------------------------------------------------------- claims
\* the truth table of the three-way AND over (hasFocus, isVisible, hasWindow)
AnimatingTable ==
    [f \in BOOLEAN, v \in BOOLEAN, w \in BOOLEAN |->
        IF f = TRUE /\ v = TRUE /\ w = TRUE THEN TRUE ELSE FALSE]

\* C1: in every reachable state IsAnimating() is true exactly when hasFocus,
\* isVisible and hasWindow are all true, and the timeout GameLoop derives
\* from it is 0 exactly then.
C1_IsAnimatingIsAndOfFlags ==
    /\ IsAnimating = AnimatingTable[mHasFocus, mIsVisible, mHasWindow]
    /\ (PollArg = 0) = AnimatingTable[mHasFocus, mIsVisible, mHasWindow]

\* C1 witness: all three flags were set by commands and a poll was made
\* without blocking.
C1_Witness ==
    mHasFocus /\ mIsVisible /\ mHasWindow /\ IsAnimating /\ pollTimeout = 0

\* C2: the surface and the context handle are never valid while the display
\* handle is EGL_NO_DISPLAY.
C2_NoSurfaceOrContextWithoutDisplay ==
    mEglDisplay = EGL_NO_DISPLAY =>
        (mEglSurface = EGL_NO_SURFACE /\ mEglContext = EGL_NO_CONTEXT)

\* C2 witness: a display that had a surface and a context was killed.
C2_Witness ==
    /\ mEglDisplay = EGL_NO_DISPLAY
    /\ {"eglDestroySurface", "eglDestroyContext", "eglTerminate"} \subseteq calls

\* C3 (as claimed): previous_positions holds at most one record per id.
C3_AtMostOneRecordPerId ==
    \A i, j \in 1 .. Len(previous_positions) :
        previous_positions[i].id = previous_positions[j].id => i = j

\* the record the last Down of id pushed: the last record of id
LastRecord(pp, id) ==
    CHOOSE k \in 1 .. Len(pp) :
        /\ pp[k].id = id
        /\ \A j \in (k + 1) .. Len(pp) : pp[j].id # id

\* a position both of whose coordinates are finite numbers
IsFinite(pos) == pos.x[2] # 0 /\ pos.y[2] # 0

\* C4 (as claimed): every Move emitted for a tracked id carries the new
\* normalized position minus the position stored for the id since its Down
\* or its previous Move, and that stored position becomes the new one
\* (stated for a surface of known size and stored positions that are finite).
C4_MoveDeltaAgainstStored ==
    [][\A k \in 1 .. Len(touch_log') :
          LET ev == touch_log'[k]
          IN  (/\ pc = "events" /\ ev.type = "Move"
               /\ mSurfWidth > 0 /\ mSurfHeight > 0
               /\ \A i \in 1 .. Len(previous_positions) :
                     IsFinite(previous_positions[i].pos)
               /\ FindRecord(previous_positions, ev.id) # 0) =>
                 LET stored == previous_positions[LastRecord(previous_positions, ev.id)].pos
                 IN  /\ ev.move_ndelta = Position(FSub(ev.norm_pos.x, stored.x),
                                                  FSub(ev.norm_pos.y, stored.y))
                     /\ previous_positions'[LastRecord(previous_positions', ev.id)].pos
                            = ev.norm_pos]_vars

\* C5 (as claimed): handling an Up or pointer-Up removes at most one record.
C5_UpRemovesAtMostOne ==
    [][(pc = "events" /\ Len(touch_log') = 1 /\ touch_log'[1].type = "Up") =>
          Len(previous_positions') >= Len(previous_positions) - 1]_vars

\* Up and pointer-Up events whose pointer has no record in pp
UnknownUps(pp) ==
    {e \in MotionEvents :
        /\ e.action \in UpActions
        /\ FindRecord(pp, e.pointers[e.index + 1].id) = 0}

\* C6: handling an Up or pointer-Up whose id has no record leaves
\* previous_positions as it was, logs the miss and still gives the Up event to
\* the callback; the loop then goes on to the next event.
C6_UnknownUpLeavesTracker ==
    /\ \A e \in UnknownUps(previous_positions) :
          \A garbage \in IndeterminateDeltas(e) :
             LET t == process_motion_event(previous_positions, e, garbage,
                                           mSurfWidth, mSurfHeight)
             IN  /\ t.pp = previous_positions
                 /\ t.diag = {"LOGE:noooooooooooooo"}
                 /\ Len(t.log) = 1
                 /\ t.log[1].type = "Up"
                 /\ t.log[1].id = e.pointers[e.index + 1].id
    /\ "LOGE:noooooooooooooo" \in engineLog =>
          /\ pc = "cooked"
          /\ Len(touch_log) = 1
          /\ touch_log[1].type = "Up"
          /\ FindRecord(previous_positions, touch_log[1].id) = 0

\* C6 witness: an Up for an id without a record was handled while another
\* id was tracked.
C6_Witness ==
    /\ pc = "cooked"
    /\ "LOGE:noooooooooooooo" \in engineLog
    /\ Len(previous_positions) > 0
    /\ Len(touch_log) = 1
    /\ touch_log[1].type = "Up"

\* C7 (as claimed): no Move is given to the callback for a pointer whose id
\* has no record, and no record is created for it.
C7_UntrackedMoveSkipped ==
    [][\A k \in 1 .. Len(touch_log') :
          (pc = "events" /\ touch_log'[k].type = "Move") =>
              FindRecord(previous_positions, touch_log'[k].id) # 0]_vars

\* what eglGetDisplay and eglInitialize may answer
InitOutcomes ==
    [getDisplay : {EGL_NO_DISPLAY, DisplayHandle}, initOk : BOOLEAN]

Handles(m) == <<m.mEglDisplay, m.mEglSurface, m.mEglContext, m.mEglConfig>>

\* C8: after an InitDisplay that returned success, a second InitDisplay
\* returns success, makes no platform call and leaves every handle as it is,
\* whatever the platform would answer.
C8_InitDisplayIdempotent ==
    \A o1 \in InitOutcomes, o2 \in InitOutcomes :
        LET r1 == InitDisplay(Render, o1)
            r2 == InitDisplay([r1 EXCEPT !.calls = {}, !.log = {}], o2)
        IN  r1.ret =>
               /\ r2.ret
               /\ r2.calls = {}
               /\ Handles(r2) = Handles(r1)
               /\ r2.eglInitialized = r1.eglInitialized

\* C8 witness: a frame ran InitDisplay on a display an earlier frame had
\* initialised, and no display call was made.
C8_Witness ==
    /\ "InitDisplay:noop" \in engineLog
    /\ eglInitialized
    /\ mEglDisplay = DisplayHandle
    /\ calls \cap {"eglGetDisplay", "eglInitialize"} = {}

\* C9 (as claimed): an InitDisplay that failed leaves the display handle
\* invalid, and as long as the display is not initialised every frame's
\* InitDisplay calls eglGetDisplay and eglInitialize again.
C9_FailedInitIsRetried ==
    [][/\ "InitDisplay:failed" \in engineLog' => mEglDisplay' = EGL_NO_DISPLAY
       /\ (pc = "frame" /\ pc' # "frame" /\ ~eglInitialized) =>
              {"eglGetDisplay", "eglInitialize"} \subseteq calls']_vars

\* C10: HandleEglError(EGL_BAD_DISPLAY) ends with surface, context and
\* display all invalid, from every reachable state.
C10_BadDisplayKillsAll ==
    /\ LET r == HandleEglError(Render, EGL_BAD_DISPLAY)
       IN  /\ r.mEglDisplay = EGL_NO_DISPLAY
           /\ r.mEglSurface = EGL_NO_SURFACE
           /\ r.mEglContext = EGL_NO_CONTEXT
    /\ "HandleEglError:EGL_BAD_DISPLAY" \in engineLog =>
          /\ mEglDisplay = EGL_NO_DISPLAY
          /\ mEglSurface = EGL_NO_SURFACE
          /\ mEglContext = EGL_NO_CONTEXT

\* C10 witness: HandleEglError(EGL_BAD_DISPLAY) ran on valid handles.
C10_Witness ==
    /\ "HandleEglError:EGL_BAD_DISPLAY" \in engineLog
    /\ {"eglDestroySurface", "eglDestroyContext", "eglTerminate"} \subseteq calls
    /\ mEglDisplay = EGL_NO_DISPLAY

\* C11: HandleEglError(EGL_BAD_SURFACE) ends with the surface invalid and with
\* the display handle and the context handle as they were before the call,
\* from every reachable state; the step that runs it changes neither.
C11_BadSurfaceKillsSurfaceOnly ==
    /\ LET r == HandleEglError(Render, EGL_BAD_SURFACE)
       IN  /\ r.ret
           /\ r.mEglSurface = EGL_NO_SURFACE
           /\ r.mEglDisplay = mEglDisplay
           /\ r.mEglContext = mEglContext
           /\ r.eglInitialized = eglInitialized
           /\ r.calls \cap {"eglDestroyContext", "eglTerminate"} = {}
    /\ "HandleEglError:EGL_BAD_SURFACE" \in engineLog =>
          /\ mEglSurface = EGL_NO_SURFACE
          /\ calls \cap {"eglDestroyContext", "eglTerminate"} = {}

\* C11 witness: HandleEglError(EGL_BAD_SURFACE) destroyed a surface and the
\* display and the context are still valid.
C11_Witness ==
    /\ "HandleEglError:EGL_BAD_SURFACE" \in engineLog
    /\ "eglDestroySurface" \in calls
    /\ mEglSurface = EGL_NO_SURFACE
    /\ mEglDisplay = DisplayHandle
    /\ mEglContext = ContextHandle

\* the frames of PlatformOutcomes in which PrepareToRender succeeds and the
\* queried surface size differs from the cached one
ResizeOutcomes ==
    {o \in PlatformOutcomes(Render, TRUE) :
        LET p == PrepareToRender(Render, o)
        IN  p.ret /\ (o.size.w # p.mSurfWidth \/ o.size.h # p.mSurfHeight)}

\* C12: a DoFrame that finds the queried surface size different from the
\* cached one stores the new size and sets the viewport, and in that
\* invocation draws nothing, advances neither rotate_by nor nn and presents
\* no buffer.
C12_ResizeFrameDrawsNothing ==
    /\ \A o \in ResizeOutcomes :
          LET r == DoFrame(Render, o)
          IN  /\ r.mSurfWidth = o.size.w /\ r.mSurfHeight = o.size.h
              /\ "glViewport" \in r.calls
              /\ r.calls \cap {"glDrawArrays", "eglSwapBuffers"} = {}
              /\ r.nn = nn /\ r.rotate_by = rotate_by
              /\ r.mIsFirstFrame = mIsFirstFrame
              /\ "DoFrame:draw" \notin r.log
    /\ "DoFrame:resize" \in engineLog =>
          /\ "glViewport" \in calls
          /\ calls \cap {"glDrawArrays", "eglSwapBuffers"} = {}

\* C12 witness: after frames that drew, a frame found the surface resized.
C12_Witness ==
    /\ "DoFrame:resize" \in engineLog
    /\ ~mIsFirstFrame
    /\ nn = 1
    /\ "glViewport" \in calls

\* C13 (as claimed): when eglSwapBuffers fails, DoFrame gives the error code
\* of the failure to HandleEglError, so the repair of that code is applied in
\* the same frame: after EGL_CONTEXT_LOST the context is invalid at the end of
\* the frame, after EGL_BAD_SURFACE the surface is.
C13_PresentFailureRepaired ==
    \A error \in EglErrors \ {EGL_SUCCESS} :
        ("eglSwapBuffers failed:" \o error) \in engineLog =>
            /\ ("HandleEglError:" \o error) \in engineLog
            /\ error = EGL_CONTEXT_LOST => mEglContext = EGL_NO_CONTEXT
            /\ error = EGL_BAD_SURFACE => mEglSurface = EGL_NO_SURFACE

\* what the three Init methods of PrepareToRender log when they fail
PrepareFailures == {"InitDisplay:failed", "InitSurface:failed", "InitContext:failed"}

\* what InitDisplay logs, whatever its outcome
InitDisplayRan == {"InitDisplay:noop", "InitDisplay:ok", "InitDisplay:failed"}

\* C14: a frame whose PrepareToRender fails draws nothing and presents
\* nothing, changes neither nn nor rotate_by nor the cached size, and leaves
\* the loop at its next poll, never aborted; and every frame that starts
\* with a handle missing runs PrepareToRender's InitDisplay again, whatever
\* happened in the frames before.
C14_FailedPrepareSkipsFrame ==
    [][/\ (pc = "frame" /\ engineLog' \cap PrepareFailures # {}) =>
              /\ "DoFrame:not ready" \in engineLog'
              /\ calls' \cap {"eglQuerySurface", "glViewport", "glDrawArrays",
                               "eglSwapBuffers"} = {}
              /\ nn' = nn /\ rotate_by' = rotate_by
              /\ mSurfWidth' = mSurfWidth /\ mSurfHeight' = mSurfHeight
              /\ pc' = "poll"
       /\ pc' # "aborted"
       /\ (/\ pc = "frame" /\ pc' # "frame"
           /\ (mEglDisplay = EGL_NO_DISPLAY \/ mEglSurface = EGL_NO_SURFACE
                  \/ mEglContext = EGL_NO_CONTEXT)) =>
              engineLog' \cap InitDisplayRan # {}]_vars

\* C14 witness: a frame failed to create the surface on a display an earlier
\* frame had created, and the loop is back at its poll.
C14_Witness ==
    /\ pc = "poll"
    /\ {"DoFrame:not ready", "InitDisplay:noop", "InitSurface:failed"} \subseteq engineLog
    /\ eglInitialized
    /\ "glDrawArrays" \notin calls

\* GameLoop has returned
Returned == pc \in {"done", "destroyed"}

\* C15: when destroyRequested is set after a host event was processed,
\* GameLoop returns, and from then on nothing of the loop runs: no poll (the
\* timeout of the last poll stays), no input processing (the tracker and the
\* dispatched events stay), no DoFrame (no query, draw or present, counters
\* and cached size stay).
C15_DestroyIsTerminal ==
    [][/\ destroyRequested' => (pc' \in {"done", "destroyed"})
       /\ Returned =>
              /\ pc' \in {"done", "destroyed"}
              /\ destroyRequested'
              /\ UNCHANGED <<pollTimeout, lifecycleVars, previous_positions, touch_log,
                             nn, rotate_by, mSurfWidth, mSurfHeight, mIsFirstFrame>>
              /\ calls' \cap {"eglQuerySurface", "glViewport", "glDrawArrays",
                               "eglSwapBuffers", "eglGetDisplay", "eglInitialize"} = {}
              /\ \A entry \in engineLog' :
                     entry \notin {"DoFrame:not ready", "DoFrame:resize", "DoFrame:draw"}]_vars

\* C15 witness: the loop drew frames, then APP_CMD_DESTROY was processed and
\* GameLoop returned.
C15_Witness ==
    /\ pc = "done"
    /\ destroyRequested
    /\ lastCmd = "APP_CMD_DESTROY"
    /\ nn = 1
    /\ mEglContext = ContextHandle

\* C16: every poll GameLoop makes has timeout -1 (blocks) exactly when
\* IsAnimating() is false at that poll and timeout 0 exactly when it is true;
\* and a loop that is at its poll while animating gets to the frame, unless a
\* command ends the animation or the loop.
C16_PollBlocksIffNotAnimating ==
    /\ [][(pc = "poll" /\ (pc' = "input" \/ lastCmd' # "none")) =>
              /\ IsAnimating => pollTimeout' = 0
              /\ ~IsAnimating => pollTimeout' = -1]_vars
    /\ (pc = "poll" /\ IsAnimating) ~> (pc = "frame" \/ ~IsAnimating \/ Returned)

\* C16 witness: a poll made while animating did not block and the loop went
\* on to process_input_events.
C16_Witness ==
    /\ pc = "input"
    /\ IsAnimating
    /\ pollTimeout = 0

\* the error codes HandleEglError answers by killing the context
ContextErrors == {EGL_CONTEXT_LOST, EGL_BAD_CONTEXT}

\* C17: HandleEglError(EGL_CONTEXT_LOST) and HandleEglError(EGL_BAD_CONTEXT)
\* end with the context invalid and the surface and display handles as they
\* were; and when surface and display are valid, the next PrepareToRender in
\* which eglCreateContext succeeds creates a context and still leaves the
\* surface and display handles as they were.
C17_ContextErrorKillsContextOnly ==
    /\ \A error \in ContextErrors :
          LET r == HandleEglError(Render, error)
              k == [r EXCEPT !.calls = {}, !.log = {}]
          IN  /\ r.ret
              /\ r.mEglContext = EGL_NO_CONTEXT
              /\ r.mEglSurface = mEglSurface
              /\ r.mEglDisplay = mEglDisplay
              /\ r.calls \cap {"eglDestroySurface", "eglTerminate"} = {}
              /\ (mEglDisplay # EGL_NO_DISPLAY /\ eglInitialized
                     /\ mEglSurface # EGL_NO_SURFACE) =>
                    \A o \in {x \in PlatformOutcomes(k, TRUE) : x.ctxOk} :
                       LET p == PrepareToRender(k, o)
                       IN  /\ p.ret
                           /\ "eglCreateContext" \in p.calls
                           /\ p.mEglContext = ContextHandle
                           /\ p.mEglSurface = mEglSurface
                           /\ p.mEglDisplay = mEglDisplay
                           /\ p.calls \cap {"eglGetDisplay", "eglInitialize",
                                             "eglCreateWindowSurface", "eglDestroySurface",
                                             "eglTerminate"} = {}
    /\ \A error \in ContextErrors :
          ("HandleEglError:" \o error) \in engineLog =>
              /\ mEglContext = EGL_NO_CONTEXT
              /\ calls \cap {"eglDestroySurface", "eglTerminate"} = {}

\* C17 witness: HandleEglError(EGL_CONTEXT_LOST) destroyed the context of an
\* engine whose display and surface are valid, and they still are.
C17_Witness ==
    /\ "HandleEglError:EGL_CONTEXT_LOST" \in engineLog
    /\ "eglDestroyContext" \in calls
    /\ mEglContext = EGL_NO_CONTEXT
    /\ mEglSurface = SurfaceHandle
    /\ mEglDisplay = DisplayHandle
    /\ eglInitialized

\* error codes that have no case of their own in HandleEglError
UnknownErrors == {EGL_BAD_ALLOC, "EGL_NOT_INITIALIZED", "EGL_BAD_ACCESS"}

\* C18: HandleEglError(EGL_SUCCESS) returns true and HandleEglError with a
\* code that has no case of its own returns false; both make no platform
\* call, leave display, surface, context and config handles and the
\* GL-objects flag as they were, and do not abort.
C18_SuccessAndUnknownChangeNothing ==
    /\ \A error \in {EGL_SUCCESS} \cup UnknownErrors :
          LET r == HandleEglError(Render, error)
          IN  /\ r.ret = (error = EGL_SUCCESS)
              /\ Handles(r) = Handles(Render)
              /\ r.eglInitialized = eglInitialized
              /\ r.mHasGLObjects = mHasGLObjects
              /\ r.calls = {}
              /\ ~r.aborted
    /\ engineLog \cap {"HandleEglError:" \o error : error \in UnknownErrors} # {} =>
          (calls = {} /\ pc # "aborted")

\* C18 witness: HandleEglError was given an unknown code while display,
\* surface and context were valid, and they still are.
C18_Witness ==
    /\ "HandleEglError:EGL_BAD_ALLOC" \in engineLog
    /\ calls = {}
    /\ mEglDisplay = DisplayHandle
    /\ mEglSurface = SurfaceHandle
    /\ mEglContext = ContextHandle

\* C19 (as claimed): when a shader fails to compile in PrepareToRender its
\* loaded flag is false afterwards and the DoFrame that ran that
\* PrepareToRender draws nothing.
C19_ShaderFailureSkipsFrame ==
    /\ "load_vertex_shader:failed" \in engineLog =>
          (~vs_loaded /\ "glDrawArrays" \notin calls)
    /\ "load_frag_shader:failed" \in engineLog =>
          (~fs_loaded /\ "glDrawArrays" \notin calls)

\* C20 (as claimed): when the Up event of a tracked id is given to the
\* callback, the record of the id is still in previous_positions.
C20_UpEmittedBeforeRemoval ==
    [][\A k \in 1 .. Len(touch_log') :
          (/\ pc = "events" /\ touch_log'[k].type = "Up"
           /\ FindRecord(previous_positions, touch_log'[k].id) # 0) =>
              FindRecord(dispatch_log'[k], touch_log'[k].id) # 0]_vars

\* C20 (amended): the record of a tracked id is removed first and the Up
\* event is given to the callback afterwards: at that call
\* previous_positions holds no record of the id and is already what it is
\* when the event has been handled.
C20_UpEmittedAfterRemoval ==
    [][\A k \in 1 .. Len(touch_log') :
          (/\ pc = "events" /\ touch_log'[k].type = "Up"
           /\ FindRecord(previous_positions, touch_log'[k].id) # 0) =>
              /\ FindRecord(dispatch_log'[k], touch_log'[k].id) = 0
              /\ dispatch_log'[k] = previous_positions'
              /\ Len(previous_positions') < Len(previous_positions)]_vars

\* C20 witness: the Up of a tracked id was given to the callback while the
\* record of another id stays in the tracker.
C20_Witness ==
    /\ pc = "cooked"
    /\ Len(touch_log) = 1
    /\ touch_log[1].type = "Up"
    /\ "LOGE:noooooooooooooo" \notin engineLog
    /\ Len(dispatch_log) = 1
    /\ Len(dispatch_log[1]) = 1

\* what DoFrame logs on its three ways out
DoFrameRan == {"DoFrame:not ready", "DoFrame:resize", "DoFrame:draw"}

\* C21: an iteration of GameLoop that does not return goes from the poll to
\* process_input_events and from there to one DoFrame and back to the poll;
\* DoFrame runs in the step after process_input_events and in no other, and
\* it runs whether IsAnimating() is true or false.
C21_FrameEveryIteration ==
    /\ [][/\ pc = "poll" => pc' \in {"poll", "input", "done"}
          /\ pc = "input" => pc' \in {"events", "frame"}
          /\ pc = "frame" => (pc' = "poll" /\ engineLog' \cap DoFrameRan # {})
          /\ engineLog' \cap DoFrameRan # {} => pc = "frame"
          /\ pc' = "frame" => pc \in {"input", "cooked"}]_vars
    /\ (pc = "input") ~> (pc = "poll" /\ engineLog \cap DoFrameRan # {})

\* C21 witness: DoFrame drew a frame in an iteration whose poll blocked,
\* the engine not animating.
C21_Witness ==
    /\ pc = "poll"
    /\ "DoFrame:draw" \in engineLog
    /\ ~IsAnimating
    /\ pollTimeout = -1

\* C22 (as claimed): after a poll call the iteration goes on to
\* process_input_events (or GameLoop returns): no second poll is made in the
\* same iteration.
C22_SinglePollPerIteration ==
    [][pc = "poll" => pc' # "poll"]_vars

\* C22 (amended): an iteration polls one or more times before
\* process_input_events and the frame, again after every host event it
\* processed; a poll is made at no other point of the loop, and a poll
\* blocks (timeout -1) only when IsAnimating() is false at that poll.
C22_PollsOnlyAtLoopHead ==
    [][/\ pc = "poll" => pc' \in {"poll", "input", "done"}
       /\ pc' = "input" => pc = "poll"
       /\ pc # "poll" => pollTimeout' = pollTimeout
       /\ (pc = "poll" /\ pollTimeout' = -1) => ~IsAnimating
       /\ (pc = "poll" /\ pc' = "poll") => lastCmd' \in AppCmds]_vars

\* C22 witness: a poll that blocked returned a host command, the command
\* was processed and the iteration is at its poll again.
C22_Witness ==
    /\ pc = "poll"
    /\ lastCmd = "APP_CMD_GAINED_FOCUS"
    /\ pollTimeout = -1
    /\ ~IsAnimating

\* what the platform may answer to the calls of PrepareToRender, were they
\* made
PrepareOutcomes ==
    [getDisplay : {EGL_NO_DISPLAY, DisplayHandle}, initOk : BOOLEAN,
     surfOk : BOOLEAN, ctxOk : BOOLEAN,
     makeCurrent : {EGL_SUCCESS, EGL_BAD_SURFACE},
     vsOk : BOOLEAN, fsOk : BOOLEAN,
     size : {[w |-> 1, h |-> 2]}, swap : {EGL_SUCCESS}]

\* the platform on which every call of PrepareToRender would fail
AllFail ==
    [getDisplay |-> EGL_NO_DISPLAY, initOk |-> FALSE, surfOk |-> FALSE,
     ctxOk |-> FALSE, makeCurrent |-> EGL_BAD_SURFACE, vsOk |-> FALSE,
     fsOk |-> FALSE, size |-> [w |-> 1, h |-> 2], swap |-> EGL_SUCCESS]

AllValid(m) ==
    /\ m.mEglDisplay # EGL_NO_DISPLAY
    /\ m.mEglSurface # EGL_NO_SURFACE
    /\ m.mEglContext # EGL_NO_CONTEXT

\* C23: with display, surface and context valid PrepareToRender returns true,
\* makes no platform call, loads no shader, program or vertex buffer and
\* changes no field of the engine, whatever the platform would answer; and
\* a PrepareToRender that follows one that returned true changes nothing.
C23_PrepareToRenderIdempotent ==
    /\ AllValid(Render) =>
          \A o \in PrepareOutcomes :
             LET p == PrepareToRender(Render, o)
             IN  /\ p.ret
                 /\ p.calls = {}
                 /\ p.log = {}
                 /\ p = Render
    /\ \A o \in PlatformOutcomes(Render, TRUE) :
          LET p1 == PrepareToRender(Render, o)
              k == [p1 EXCEPT !.calls = {}, !.log = {}]
              p2 == PrepareToRender(k, AllFail)
          IN  p1.ret => (p2.ret /\ p2 = k)
    /\ (engineLog \cap {"DoFrame:resize", "DoFrame:draw"} # {}
           /\ engineLog \cap InitDisplayRan = {}) =>
          calls \cap {"eglMakeCurrent", "glCreateShader", "glCreateProgram",
                      "glGenBuffers", "eglCreateContext",
                      "eglCreateWindowSurface"} = {}

\* C23 witness: a frame was drawn whose PrepareToRender found everything
\* valid and did nothing.
C23_Witness ==
    /\ "DoFrame:draw" \in engineLog
    /\ engineLog \cap InitDisplayRan = {}
    /\ "eglMakeCurrent" \notin calls
    /\ AllValid(Render)
    /\ nn = 0
    /\ ~mIsFirstFrame

\* the commands on which HandleCommand writes a lifecycle flag
FlagCmds ==
    {"APP_CMD_INIT_WINDOW", "APP_CMD_TERM_WINDOW", "APP_CMD_GAINED_FOCUS",
     "APP_CMD_LOST_FOCUS", "APP_CMD_START", "APP_CMD_STOP"}

\* C24: mHasFocus, mIsVisible and mHasWindow change only in a step that
\* handles a command, the window flag only on window-init/term, the focus
\* flag only on focus gained/lost, the visible flag only on start/stop; every
\* other command and every step that is not a command (input processing,
\* DoFrame with its PrepareToRender, HandleEglError, the destructor) leaves
\* the three flags as they are.
C24_FlagsChangeOnlyOnTheirCommands ==
    [][/\ mHasWindow' # mHasWindow =>
              (pc = "poll" /\ lastCmd' \in {"APP_CMD_INIT_WINDOW", "APP_CMD_TERM_WINDOW"})
       /\ mHasFocus' # mHasFocus =>
              (pc = "poll" /\ lastCmd' \in {"APP_CMD_GAINED_FOCUS", "APP_CMD_LOST_FOCUS"})
       /\ mIsVisible' # mIsVisible =>
              (pc = "poll" /\ lastCmd' \in {"APP_CMD_START", "APP_CMD_STOP"})
       /\ lastCmd' \notin FlagCmds => UNCHANGED lifecycleVars]_vars

\* C24 witness: APP_CMD_CONFIG_CHANGED was handled with all three flags set,
\* and they still are.
C24_Witness ==
    /\ lastCmd = "APP_CMD_CONFIG_CHANGED"
    /\ mHasFocus /\ mIsVisible /\ mHasWindow
    /\ mEglSurface = SurfaceHandle

\* the frames of PlatformOutcomes that reach the draw call
DrawOutcomes ==
    {o \in PlatformOutcomes(Render, TRUE) :
        "glDrawArrays" \in DoFrame(Render, o).calls}

\* C25: when DoFrame calls glDrawArrays the display, surface and context
\* handles are valid: they are when PrepareToRender has returned in a frame
\* that goes on to draw, also when eglMakeCurrent failed in it, and they
\* still are when the frame that drew ends.
C25_DrawOnlyWithValidHandles ==
    /\ \A o \in DrawOutcomes :
          LET p == PrepareToRender(Render, o)
          IN  p.ret /\ AllValid(p) /\ p.eglInitialized
    /\ "glDrawArrays" \in calls => (AllValid(Render) /\ eglInitialized)

\* C25 witness: a frame drew although eglMakeCurrent had failed in its
\* PrepareToRender.
C25_Witness ==
    /\ "DoFrame:draw" \in engineLog
    /\ "glDrawArrays" \in calls
    /\ "eglMakeCurrent failed:EGL_BAD_SURFACE" \in engineLog
    /\ AllValid(Render)

\* a float in [0,1]
InUnit(a) == a[2] > 0 /\ 0 <= a[1] /\ a[1] <= a[2]

\* C26 (as claimed): no touch event is normalized while the cached surface
\* width or height is 0, and the normalized position of every event given
\* to the callback lies in [0,1] on both axes.
C26_NormalizedAgainstPositiveBounds ==
    \A k \in 1 .. Len(touch_log) :
        /\ mSurfWidth > 0 /\ mSurfHeight > 0
        /\ InUnit(touch_log[k].norm_pos.x)
        /\ InUnit(touch_log[k].norm_pos.y)

\* C27: MY_ASSERT(mEglDisplay != EGL_NO_DISPLAY) of InitSurface and
\* InitContext never fails: an InitDisplay that returns true leaves a valid
\* display handle, no frame the engine can run from a reachable state
\* aborts, and no step has aborted, with host commands, HandleEglError
\* called with any code and failing platform calls interleaved.
C27_DisplayAssertNeverFails ==
    /\ pc # "aborted"
    /\ "ABORT_GAME" \notin engineLog
    /\ \A o \in InitOutcomes :
          LET m1 == InitDisplay(Render, o)
          IN  m1.ret => m1.mEglDisplay # EGL_NO_DISPLAY
    /\ \A o \in PlatformOutcomes(Render, TRUE) :
          LET r == DoFrame(Render, o)
          IN  ~r.aborted /\ "ABORT_GAME" \notin r.log

\* C27 witness: after HandleEglError(EGL_BAD_DISPLAY) had killed display,
\* surface and context of an engine that had drawn, a frame created all
\* three again.
C27_Witness ==
    /\ {"InitDisplay:ok", "InitSurface:ok", "InitContext:ok"} \subseteq engineLog
    /\ ~mIsFirstFrame
    /\ pc = "poll"
    /\ AllValid(Render)

\* C28: handling APP_CMD_TERM_WINDOW ends with the surface handle invalid
\* and mHasWindow false, and leaves the display handle, the context handle,
\* mHasFocus, mIsVisible and the cached surface size as they were, from
\* every reachable state.
C28_TermWindowKillsSurfaceOnly ==
    [][(pc = "poll" /\ lastCmd' = "APP_CMD_TERM_WINDOW") =>
          /\ mEglSurface' = EGL_NO_SURFACE
          /\ ~mHasWindow'
          /\ UNCHANGED <<mEglDisplay, mEglContext, eglInitialized, mHasFocus,
                         mIsVisible, mSurfWidth, mSurfHeight>>
          /\ calls' \cap {"eglDestroyContext", "eglTerminate"} = {}]_vars

\* C28 witness: APP_CMD_TERM_WINDOW was handled by an animating engine with
\* a surface; display, context, focus, visibility and cached size are
\* still there.
C28_Witness ==
    /\ lastCmd = "APP_CMD_TERM_WINDOW"
    /\ "eglDestroySurface" \in calls
    /\ mEglSurface = EGL_NO_SURFACE
    /\ ~mHasWindow
    /\ mEglDisplay = DisplayHandle /\ mEglContext = ContextHandle
    /\ mHasFocus /\ mIsVisible
    /\ mSurfWidth > 0 /\ mSurfHeight > 0

====
